---------------------------- MODULE Spec2Model ----------------------------
(***************************************************************************)
(* A model of the NASA POWER slice / export / load / plot scripts:         *)
(*   data_download.py   slice_dataset, save_outputs                        *)
(*   visualize_map.py   _open_netcdf_any, _load_dataset,                   *)
(*                      plot_radiation_map, plot_two_maps,                 *)
(*                      _print_available_vars and the command line         *)
(*                                                                         *)
(* Names (variables, columns, dimensions) and paths are sequences of       *)
(* one-character strings, so that str.lower, os.path.splitext,             *)
(* os.path.dirname, os.path.join and os.path.abspath are computed the way  *)
(* the library computes them.                                              *)
(***************************************************************************)
EXTENDS Integers, Sequences, FiniteSets, TLC

VARIABLES
    op,       \* the entry point of this run ("idle" before it is chosen)
    pc,       \* position of the running call
    stack,    \* return labels of the callers of the running call
    call,     \* arguments of the entry point
    frame,    \* arguments and locals of the running loader call
    plot,     \* locals of the running plot call
    fs,       \* the file system: absolute path -> what is stored there
    log,      \* what the run did to the outside world, in order
    ret       \* what the last completed call returned or raised

vars == <<op, pc, stack, call, frame, plot, fs, log, ret>>

(***************************************************************************)
(* Bounds of the model.                                                    *)
(***************************************************************************)
NLat == 3     \* latitudes of the source grid
NLon == 3     \* longitudes of the source grid
NTime == 3    \* time steps of the source grid

(***************************************************************************)
(* Characters and strings.                                                 *)
(***************************************************************************)
UpperLetters == <<"A","B","C","D","E","F","G","H","I","J","K","L","M",
                  "N","O","P","Q","R","S","T","U","V","W","X","Y","Z">>
LowerLetters == <<"a","b","c","d","e","f","g","h","i","j","k","l","m",
                  "n","o","p","q","r","s","t","u","v","w","x","y","z">>

\* str.lower on one character
LowerChar(c) ==
    IF \E i \in 1..Len(UpperLetters) : UpperLetters[i] = c
    THEN LowerLetters[CHOOSE i \in 1..Len(UpperLetters) : UpperLetters[i] = c]
    ELSE c

\* str.lower
Lower(s) == [i \in 1..Len(s) |-> LowerChar(s[i])]

\* str.rfind(c) + 1: the last position of c in s, 0 when absent
RFind(s, c) ==
    IF \E i \in 1..Len(s) : s[i] = c
    THEN CHOOSE i \in 1..Len(s) : s[i] = c /\ \A j \in (i+1)..Len(s) : s[j] # c
    ELSE 0

\* membership in a tuple / list
InSeq(x, s) == \E i \in 1..Len(s) : s[i] = x

SeqToSet(s) == {s[i] : i \in 1..Len(s)}

\* str.rstrip("/")
RECURSIVE RStripSlash(_)
RStripSlash(s) ==
    IF Len(s) > 0 /\ s[Len(s)] = "/" THEN RStripSlash(SubSeq(s, 1, Len(s) - 1)) ELSE s

(***************************************************************************)
(* os.path                                                                 *)
(***************************************************************************)
\* os.path.splitext(p)[1]
SplitextExt(p) ==
    LET sepIndex == RFind(p, "/")
        dotIndex == RFind(p, ".")
    IN  IF dotIndex > sepIndex
           /\ \E k \in (sepIndex + 1)..(dotIndex - 1) : p[k] # "."
        THEN SubSeq(p, dotIndex, Len(p))
        ELSE <<>>

\* os.path.dirname(p)
Dirname(p) ==
    LET head == SubSeq(p, 1, RFind(p, "/"))
    IN  IF head # <<>> /\ \E k \in 1..Len(head) : head[k] # "/"
        THEN RStripSlash(head)
        ELSE head

\* os.path.join(a, b)
Join(a, b) ==
    IF Len(b) > 0 /\ b[1] = "/" THEN b
    ELSE IF a = <<>> \/ a[Len(a)] = "/" THEN a \o b
    ELSE a \o <<"/">> \o b

\* str.split("/")
RECURSIVE SplitSlash(_)
SplitSlash(p) ==
    IF ~InSeq("/", p) THEN <<p>>
    ELSE LET i == CHOOSE k \in 1..Len(p) : p[k] = "/" /\ \A j \in 1..(k-1) : p[j] # "/"
         IN  <<SubSeq(p, 1, i - 1)>> \o SplitSlash(SubSeq(p, i + 1, Len(p)))

\* the loop of os.path.normpath over the components
RECURSIVE NormComps(_, _, _)
NormComps(comps, new_comps, initial_slashes) ==
    IF comps = <<>> THEN new_comps
    ELSE LET comp == Head(comps)
             rest == Tail(comps)
         IN  IF comp = <<>> \/ comp = <<".">> THEN NormComps(rest, new_comps, initial_slashes)
             ELSE IF comp # <<".", ".">>
                     \/ (initial_slashes = 0 /\ new_comps = <<>>)
                     \/ (new_comps # <<>> /\ new_comps[Len(new_comps)] = <<".", ".">>)
                  THEN NormComps(rest, Append(new_comps, comp), initial_slashes)
             ELSE IF new_comps # <<>>
                  THEN NormComps(rest, SubSeq(new_comps, 1, Len(new_comps) - 1), initial_slashes)
             ELSE NormComps(rest, new_comps, initial_slashes)

\* "/".join(comps)
RECURSIVE JoinSlash(_)
JoinSlash(comps) ==
    IF comps = <<>> THEN <<>>
    ELSE IF Len(comps) = 1 THEN comps[1]
    ELSE comps[1] \o <<"/">> \o JoinSlash(Tail(comps))

\* os.path.normpath(p)
Normpath(p) ==
    IF p = <<>> THEN <<".">>
    ELSE LET starts(k) == Len(p) >= k /\ \A i \in 1..k : p[i] = "/"
             initial_slashes == IF ~starts(1) THEN 0
                                ELSE IF starts(2) /\ ~starts(3) THEN 2 ELSE 1
             body == JoinSlash(NormComps(SplitSlash(p), <<>>, initial_slashes))
             path == [i \in 1..initial_slashes |-> "/"] \o body
         IN  IF path = <<>> THEN <<".">> ELSE path

\* os.getcwd() of the run
Cwd == <<"/", "w">>

\* os.path.abspath(p)
Abspath(p) ==
    IF Len(p) > 0 /\ p[1] = "/" THEN Normpath(p) ELSE Normpath(Join(Cwd, p))

\* every ancestor directory of an absolute normalised path, and the path itself
Ancestors(ap) ==
    {SubSeq(ap, 1, k) : k \in {j \in 1..Len(ap) : j = Len(ap) \/ (j > 1 /\ ap[j + 1] = "/")}}
      \cup {<<"/">>}

(***************************************************************************)
(* Names.                                                                  *)
(***************************************************************************)
TIME == <<"t","i","m","e">>
LAT == <<"l","a","t">>
LON == <<"l","o","n">>
Latitude_l == <<"l","a","t","i","t","u","d","e">>
Latitude_c == <<"L","a","t","i","t","u","d","e">>
Latitude_u == <<"L","A","T","I","T","U","D","E">>
Longitude_l == <<"l","o","n","g","i","t","u","d","e">>
Longitude_c == <<"L","o","n","g","i","t","u","d","e">>
Longitude_u == <<"L","O","N","G","I","T","U","D","E">>
LW == <<"L","W">>       \* stands for ALLSKY_SFC_LW_DWN
SW == <<"S","W">>       \* stands for ALLSKY_SFC_SW_DWN
XX == <<"X","X">>       \* a name no dataset holds
VALUE == <<"v","a","l","u","e">>

(***************************************************************************)
(* Datasets and arrays (xarray.Dataset, xarray.DataArray).                 *)
(* A dataset is [data_vars, dims, coords]: the names of its data           *)
(* variables in order, the dimensions they share, and the coordinate       *)
(* values by coordinate name.  An array is [name, dims, coords]; a         *)
(* coordinate that is not a dimension is a scalar coordinate.              *)
(* Cell values: a cell is a function from coordinate names to one label    *)
(* each; a dataset's vals gives, by data variable, the value at each cell, *)
(* an array's vals the value at each cell.  A selection narrows coords    *)
(* only: the cells of an array are those its coords span (see Values).     *)
(***************************************************************************)
Grid(n) == [i \in 1..n |-> 2 * i]
Steps(n) == [i \in 1..n |-> i]

\* the cells spanned by coordinates
Cells(coords) ==
    LET labels == UNION {SeqToSet(coords[n]) : n \in DOMAIN coords}
    IN  {c \in [DOMAIN coords -> labels] : \A n \in DOMAIN coords : c[n] \in SeqToSet(coords[n])}

\* the sum of the labels of a cell
RECURSIVE LabelSum(_, _)
LabelSum(c, names) ==
    IF names = {} THEN 0
    ELSE LET n == CHOOSE m \in names : TRUE
         IN  c[n] + LabelSum(c, names \ {n})

\* some measurements on a grid: a different number in every cell that
\* differs in one label, and per variable
Measured(coords, k) ==
    [c \in Cells(coords) |->
        100 * k + LabelSum(c, DOMAIN coords)
          + (IF TIME \in DOMAIN coords THEN 10 * c[TIME] ELSE 0)
          + (IF LAT \in DOMAIN coords THEN 3 * c[LAT] ELSE 0)]

\* the values of the data variables of a dataset over its grid
MeasuredVars(data_vars, coords) ==
    [v \in SeqToSet(data_vars) |->
        Measured(coords, CHOOSE i \in 1..Len(data_vars) : data_vars[i] = v)]

\* the values an array holds: those of the cells its coordinates span
Values(da) == [c \in Cells(da.coords) |-> da.vals[c]]

SourceCoords == (TIME :> Steps(NTime)) @@ (LAT :> Grid(NLat)) @@ (LON :> Grid(NLon))

\* the remote POWER dataset as connection.open_power_dataset returns it
SourceDataset ==
    [data_vars |-> <<LW, SW>>,
     dims |-> <<TIME, LAT, LON>>,
     coords |-> SourceCoords,
     vals |-> MeasuredVars(<<LW, SW>>, SourceCoords)]

\* key in ds: Dataset.__contains__ looks the key up among all the variables
\* of the dataset, coordinates included
DatasetContains(ds, key) == InSeq(key, ds.data_vars) \/ key \in DOMAIN ds.coords

\* ds[key] for a key the dataset contains
DatasetGetItem(ds, key) ==
    IF InSeq(key, ds.data_vars)
    THEN [name |-> key, dims |-> ds.dims, coords |-> ds.coords, vals |-> ds.vals[key]]
    ELSE [name |-> key,
          dims |-> IF InSeq(key, ds.dims) THEN <<key>> ELSE <<>>,
          coords |-> (key :> ds.coords[key]),
          vals |-> [c \in Cells(key :> ds.coords[key]) |-> c[key]]]

\* list(ds.data_vars)
DataVars(ds) == ds.data_vars

\* the sequence s without its entries equal to x
Without(s, x) == SelectSeq(s, LAMBDA e : e # x)

(***************************************************************************)
(* DataArray.sel on one axis.  The index is increasing.                    *)
(***************************************************************************)
\* sel(dim=slice(lo, hi)): label slicing keeps both end points
SelSlice(vals, hasLo, lo, hasHi, hi) ==
    SelectSeq(vals, LAMBDA c : (hasLo => lo <= c) /\ (hasHi => c <= hi))

Dist(a, b) == IF a >= b THEN a - b ELSE b - a

\* sel(dim=x, method="nearest"): the closest label; pandas takes the left
\* neighbour only when it is strictly closer
SelNearest(vals, x) ==
    CHOOSE c \in SeqToSet(vals) :
        \A d \in SeqToSet(vals) :
            Dist(c, x) < Dist(d, x) \/ (Dist(c, x) = Dist(d, x) /\ c >= d)

Raise(exc, at, avail) == [kind |-> "raise", exc |-> exc, at |-> at, avail |-> avail]
Return(val) == [kind |-> "return", val |-> val]

\* da.sel(lat=slice(*lat), lon=slice(*lon))
SelBox(da, lat, lon) ==
    IF ~(InSeq(LAT, da.dims) /\ InSeq(LON, da.dims))
    THEN Raise("KeyError", "sel: no such dimension", <<>>)
    ELSE Return([da EXCEPT
            !.coords = [n \in DOMAIN da.coords |->
                IF n = LAT THEN SelSlice(da.coords[LAT], TRUE, lat.lo, TRUE, lat.hi)
                ELSE IF n = LON THEN SelSlice(da.coords[LON], TRUE, lon.lo, TRUE, lon.hi)
                ELSE da.coords[n]]])

\* one entry of da.sel(**sel, method=...) where the label is a scalar or a
\* tuple.  A tuple is one label to xarray, not a range: its lookup in a
\* numeric index raises (the exception's type depends on the version).
LabelFails(vals, s, nearest) ==
    IF s.box THEN TRUE
    ELSE IF nearest THEN vals = <<>>
    ELSE ~InSeq(s.v, vals)

LabelPick(vals, s, nearest) == IF nearest THEN SelNearest(vals, s.v) ELSE s.v

\* da.sel(lat=..., lon=..., method="nearest" if nearest else None)
SelLabels(da, lat, lon, nearest) ==
    IF ~(InSeq(LAT, da.dims) /\ InSeq(LON, da.dims))
    THEN Raise("KeyError", "sel: no such dimension", <<>>)
    ELSE IF lat.box \/ lon.box
    THEN Raise("LookupError", "sel: tuple label", <<>>)
    ELSE IF LabelFails(da.coords[LAT], lat, nearest) \/ LabelFails(da.coords[LON], lon, nearest)
    THEN Raise("KeyError", "sel: label not in index", <<>>)
    ELSE Return([da EXCEPT
            !.dims = Without(Without(da.dims, LAT), LON),
            !.coords = [n \in DOMAIN da.coords |->
                IF n = LAT THEN <<LabelPick(da.coords[LAT], lat, nearest)>>
                ELSE IF n = LON THEN <<LabelPick(da.coords[LON], lon, nearest)>>
                ELSE da.coords[n]]])

\* the spatial step of slice_dataset
SelSpatial(da, lat, lon, nearest) ==
    IF lat.box /\ lon.box THEN SelBox(da, lat, lon)
    ELSE SelLabels(da, lat, lon, nearest)

\* the temporal step of slice_dataset: "if time:" is true of every 2-tuple,
\* also of one holding None
SelTime(da, time) ==
    IF ~time.given THEN Return(da)
    ELSE IF ~InSeq(TIME, da.dims)
    THEN Raise("KeyError", "sel: no such dimension", <<>>)
    ELSE Return([da EXCEPT
            !.coords = [n \in DOMAIN da.coords |->
                IF n = TIME
                THEN SelSlice(da.coords[TIME], time.hasStart, time.start, time.hasEnd, time.end)
                ELSE da.coords[n]]])

\* slice_dataset(ds, var, lat=, lon=, time=, nearest=)
SliceDatasetResult(ds, var, lat, lon, time, nearest) ==
    IF ~DatasetContains(ds, var)
    THEN Raise("KeyError", "variable not found", DataVars(ds))
    ELSE LET spatial == SelSpatial(DatasetGetItem(ds, var), lat, lon, nearest)
         IN  IF spatial.kind = "raise" THEN spatial
             ELSE SelTime(spatial.val, time)

(***************************************************************************)
(* Inputs of slice_dataset.                                                *)
(***************************************************************************)
Box(lo, hi) == [box |-> TRUE, lo |-> lo, hi |-> hi]
Point(v) == [box |-> FALSE, v |-> v]

\* boxes inside, beyond and reversed; points below the grid, half way
\* between two labels, and on a label
AxisSelectors(n) ==
    {Box(lo, hi) : lo \in {1, 3}, hi \in {2, 2 * n}} \cup {Point(v) : v \in {1, 3, 4}}

NoTime == [given |-> FALSE]
TimeRange(hasStart, start, hasEnd, end) ==
    [given |-> TRUE, hasStart |-> hasStart, start |-> start, hasEnd |-> hasEnd, end |-> end]

TimeSelectors ==
    {NoTime}
      \cup {TimeRange(TRUE, s, TRUE, e) : s \in {1, 2}, e \in {2, NTime}}
      \cup {TimeRange(FALSE, 0, TRUE, e) : e \in {2, NTime}}
      \cup {TimeRange(TRUE, s, FALSE, 0) : s \in {1, 2}}
      \cup {TimeRange(FALSE, 0, FALSE, 0)}

SliceVars == {LW, SW, LAT, XX}

NoCall == [fn |-> "none"]
NoFrame == [fn |-> "none"]
NoRet == [kind |-> "none"]

NoPlot == [fn |-> "none"]

(***************************************************************************)
(* The file system.  fs maps an absolute normalised path to what is stored *)
(* there: a directory, a NetCDF file holding a dataset, a CSV file with    *)
(* its header and the values of its coordinate columns, an image, or text. *)
(***************************************************************************)
Dir == [type |-> "dir"]
NcFile(ds) == [type |-> "nc", ds |-> ds]
CsvFile(header, grid, columns) ==
    [type |-> "csv", header |-> header, grid |-> grid, columns |-> columns]
PngFile == [type |-> "png"]
TextFile == [type |-> "text"]

\* datasets stored in the files of the initial file system
FileCoords(ntime) == (TIME :> Steps(ntime)) @@ (LAT :> Grid(2)) @@ (LON :> Grid(2))

FileDataset(ntime) ==
    [data_vars |-> <<LW, SW>>,
     dims |-> <<TIME, LAT, LON>>,
     coords |-> FileCoords(ntime),
     vals |-> MeasuredVars(<<LW, SW>>, FileCoords(ntime))]

LongNamesCoords == (Latitude_l :> Grid(2)) @@ (Longitude_l :> Grid(2))

LongNamesDataset ==
    [data_vars |-> <<LW>>,
     dims |-> <<Latitude_l, Longitude_l>>,
     coords |-> LongNamesCoords,
     vals |-> MeasuredVars(<<LW>>, LongNamesCoords)]

CsvGrid == (TIME :> Steps(2)) @@ (LAT :> Grid(2)) @@ (LON :> Grid(2))

\* the columns of a table over CsvGrid, one per header entry: a coordinate
\* column holds the label of the row, any other column measurements
CsvColumns(header) ==
    [i \in 1..Len(header) |->
        IF Lower(header[i]) \in {TIME, LAT, LON}
        THEN [c \in Cells(CsvGrid) |-> c[Lower(header[i])]]
        ELSE Measured(CsvGrid, i)]

\* a CSV file over CsvGrid with this header
CsvTable(header) == CsvFile(header, CsvGrid, CsvColumns(header))

P_a_nc == <<"a", ".", "n", "c">>
P_b_NC4 == <<"b", ".", "N", "C", "4">>
P_c_cdf == <<"c", ".", "c", "d", "f">>
P_m_nc == <<"m", ".", "n", "c">>
P_t_csv == <<"t", ".", "c", "s", "v">>
P_u_CSV == <<"u", ".", "C", "S", "V">>
P_v_csv == <<"v", ".", "c", "s", "v">>
P_e_txt == <<"e", ".", "t", "x", "t">>
P_dot_nc == <<".", "n", "c">>
P_d_nc_f == <<"d", ".", "n", "c", "/", "f">>

InitFS ==
    (<<"/">> :> Dir) @@ (Cwd :> Dir)
    @@ (Abspath(P_a_nc) :> NcFile(FileDataset(NTime)))
    @@ (Abspath(P_b_NC4) :> NcFile(FileDataset(1)))
    @@ (Abspath(P_c_cdf) :> NcFile(LongNamesDataset))
    @@ (Abspath(P_t_csv) :> CsvTable(<<TIME, LAT, LON, LW>>))
    @@ (Abspath(P_u_CSV) :> CsvTable(<<<<"T","i","m","e">>, <<"L","A","T">>, <<"L","o","n">>,
                                       <<"l","w">>>>))
    @@ (Abspath(P_v_csv) :> CsvTable(<<TIME, LAT, LW>>))
    @@ (Abspath(P_e_txt) :> TextFile)
    @@ (Abspath(P_dot_nc) :> NcFile(FileDataset(1)))
    @@ (Abspath(<<"d", ".", "n", "c">>) :> Dir)
    @@ (Abspath(P_d_nc_f) :> NcFile(FileDataset(1)))

LoadPaths ==
    {P_a_nc, P_b_NC4, P_c_cdf, P_m_nc, P_t_csv, P_u_CSV, P_v_csv, P_e_txt, P_dot_nc, P_d_nc_f}

LoadVars == {LW, <<"l","w">>, LAT, XX}

Exists(f, ap) == ap \in DOMAIN f
IsDir(f, ap) == Exists(f, ap) /\ f[ap].type = "dir"

(***************************************************************************)
(* Calls, returns and exceptions.  A call pushes the label its caller      *)
(* resumes at; no caller catches an exception, so a raise ends the run.    *)
(***************************************************************************)
Event(ev, eng, path) == [ev |-> ev, eng |-> eng, path |-> path]

ReturnTo(value) ==
    /\ ret' = Return(value)
    /\ IF stack = <<>>
       THEN pc' = "done" /\ stack' = stack
       ELSE pc' = stack[Len(stack)] /\ stack' = SubSeq(stack, 1, Len(stack) - 1)

Unwind(exception) ==
    /\ ret' = exception
    /\ pc' = "done"
    /\ stack' = <<>>

(***************************************************************************)
(* _open_netcdf_any(path)                                                  *)
(***************************************************************************)
\* a slip in the order of the engines
Engines_Swapped == <<"h5netcdf", "netcdf4", "scipy">>

Engines == <<"netcdf4", "h5netcdf", "scipy">>

OpenFrame(path, var_name) ==
    [fn |-> "load", path |-> path, var_name |-> var_name, i |-> 1, errors |-> <<>>]

\* one pass of the loop "for eng in (...)": xr.open_dataset(path, engine=eng)
\* returns the dataset or raises (engine not installed, file absent or not
\* NetCDF); after the last engine has failed the RuntimeError is raised
OpenTry ==
    /\ pc = "open_try"
    /\ frame.i <= Len(Engines)
    /\ log' = Append(log, Event("open_dataset", Engines[frame.i], frame.path))
    /\ \E ok \in BOOLEAN :
        /\ ok => (Exists(fs, frame.path) /\ fs[frame.path].type = "nc")
        /\ IF ok
           THEN /\ ReturnTo(fs[frame.path].ds)
                /\ frame' = frame
           ELSE LET errors == Append(frame.errors, Engines[frame.i])
                IN  /\ frame' = [frame EXCEPT !.i = @ + 1, !.errors = errors]
                    /\ IF frame.i = Len(Engines)
                       THEN Unwind(Raise("RuntimeError", "open", errors))
                       ELSE UNCHANGED <<pc, stack, ret>>
    /\ UNCHANGED <<op, call, plot, fs>>

(***************************************************************************)
(* _load_dataset(path, var_name)                                           *)
(***************************************************************************)
NcExts == {<<".", "n", "c">>, <<".", "n", "c", "4">>, <<".", "c", "d", "f">>}
CsvExt == <<".", "c", "s", "v">>

\* a slip: the extension compared as written, not lower-cased
ExtOf_AsWritten(path) == SplitextExt(path)

\* ext = os.path.splitext(path)[1].lower()
ExtOf(path) == Lower(SplitextExt(path))

\* the branch _load_dataset takes
LoadBranch(path) ==
    IF ExtOf(path) \in NcExts THEN "nc"
    ELSE IF ExtOf(path) = CsvExt THEN "csv"
    ELSE "unsupported"

LoadDispatch ==
    /\ pc = "load"
    /\ IF LoadBranch(frame.path) = "nc"
       THEN /\ frame' = [frame EXCEPT !.path = Abspath(@)]
            /\ stack' = Append(stack, "load_nc")
            /\ pc' = "open_try"
            /\ ret' = ret
       ELSE IF LoadBranch(frame.path) = "csv"
       THEN /\ frame' = [frame EXCEPT !.path = Abspath(@)]
            /\ pc' = "load_csv"
            /\ UNCHANGED <<stack, ret>>
       ELSE /\ Unwind(Raise("ValueError", "unsupported file type", <<ExtOf(frame.path)>>))
            /\ frame' = frame
    /\ UNCHANGED <<op, call, plot, fs, log>>

\* the coordinate names _load_dataset normalises, in the order it tries them
RenameCandidates ==
    << <<Latitude_l, LAT>>, <<Latitude_c, LAT>>, <<Latitude_u, LAT>>,
       <<Longitude_l, LON>>, <<Longitude_c, LON>>, <<Longitude_u, LON>> >>

\* rename_map: the candidates present while the standard name is absent
RenameMap(da) ==
    {pair \in SeqToSet(RenameCandidates) :
        pair[1] \in DOMAIN da.coords /\ pair[2] \notin DOMAIN da.coords}

Renamed(rmap, n) ==
    IF \E pair \in rmap : pair[1] = n
    THEN (CHOOSE pair \in rmap : pair[1] = n)[2]
    ELSE n

\* da.rename(rename_map); two names renamed to one is refused by xarray
RenameResult(da) ==
    LET rmap == RenameMap(da)
        newnames == {Renamed(rmap, n) : n \in DOMAIN da.coords}
    IN  IF \E p \in rmap, q \in rmap : p # q /\ p[2] = q[2]
        THEN Raise("ValueError", "rename", <<>>)
        ELSE LET coords == [m \in newnames |->
                     da.coords[CHOOSE n \in DOMAIN da.coords : Renamed(rmap, n) = m]]
             IN  Return([name |-> da.name,
                         dims |-> [i \in 1..Len(da.dims) |-> Renamed(rmap, da.dims[i])],
                         coords |-> coords,
                         vals |-> [c \in Cells(coords) |->
                             da.vals[[n \in DOMAIN da.coords |-> c[Renamed(rmap, n)]]]]])

\* the NetCDF branch of _load_dataset once the dataset is open
LoadNcResult(ds, var_name) ==
    IF ~DatasetContains(ds, var_name)
    THEN Raise("KeyError", "variable not in dataset", DataVars(ds))
    ELSE RenameResult(DatasetGetItem(ds, var_name))

LoadNc ==
    /\ pc = "load_nc"
    /\ LET res == LoadNcResult(ret.val, frame.var_name)
       IN  IF res.kind = "raise" THEN Unwind(res) ELSE ReturnTo(res.val)
    /\ UNCHANGED <<op, call, frame, plot, fs, log>>

(***************************************************************************)
(* The CSV branch of _load_dataset.                                        *)
(***************************************************************************)
\* a slip: the columns looked up as written, not lower-cased
InColsLower_AsWritten(columns, key) == InSeq(key, columns)

\* key in cols_lower, where cols_lower = {c.lower(): c for c in df.columns}
InColsLower(columns, key) == \E i \in 1..Len(columns) : Lower(columns[i]) = key

\* cols_lower[key]: a later column replaces an earlier one with the same key
ColsLower(columns, key) ==
    columns[CHOOSE i \in 1..Len(columns) :
                /\ Lower(columns[i]) = key
                /\ \A j \in (i + 1)..Len(columns) : Lower(columns[j]) # key]

RequiredColumns == <<TIME, LAT, LON>>

\* guesses = [c for c in df.columns if c.lower() not in {"time","lat","lon"}]
ValueColumns(columns) == SelectSeq(columns, LAMBDA c : ~InSeq(Lower(c), RequiredColumns))

\* the first required column cols_lower lacks, if any
MissingRequired(columns) ==
    LET missing == {i \in 1..Len(RequiredColumns) : ~InColsLower(columns, RequiredColumns[i])}
    IN  IF missing = {} THEN <<>>
        ELSE <<RequiredColumns[CHOOSE i \in missing : \A j \in missing : i <= j]>>

\* df["time"] = pd.to_datetime(df[cols_lower["time"]])
WithTimeColumn(columns) == IF InSeq(TIME, columns) THEN columns ELSE Append(columns, TIME)

\* df.rename(columns={cols_lower["lat"]: "lat", cols_lower["lon"]: "lon",
\*                    vcol: var_name}); in the dict a later key replaces an
\* equal earlier one
RenameColumns(columns, latcol, loncol, vcol, var_name) ==
    [i \in 1..Len(columns) |->
        IF columns[i] = vcol THEN var_name
        ELSE IF columns[i] = loncol THEN LON
        ELSE IF columns[i] = latcol THEN LAT
        ELSE columns[i]]

HasDuplicates(columns) ==
    \E i \in 1..Len(columns), j \in 1..Len(columns) : i # j /\ columns[i] = columns[j]

\* df.set_index(["time","lat","lon"]).to_xarray()
TableToDataset(columns, grid, cols) ==
    LET data_vars == SelectSeq(columns, LAMBDA c : ~InSeq(c, RequiredColumns))
    IN  [data_vars |-> data_vars,
         dims |-> RequiredColumns,
         coords |-> grid,
         vals |-> [v \in SeqToSet(data_vars) |->
                     cols[CHOOSE i \in 1..Len(columns) : columns[i] = v]]]

\* the CSV branch of _load_dataset once the table is read
LoadCsvResult(csv, var_name) ==
    LET columns == csv.header
        want == Lower(var_name)
    IN  IF ~InColsLower(columns, want)
        THEN Raise("KeyError", "column not found", ValueColumns(columns))
        ELSE IF MissingRequired(columns) # <<>>
        THEN Raise("KeyError", "missing required column", MissingRequired(columns))
        ELSE LET vcol == ColsLower(columns, want)
                 renamed == RenameColumns(WithTimeColumn(columns),
                                          ColsLower(columns, LAT), ColsLower(columns, LON),
                                          vcol, var_name)
             IN  IF \E i \in 1..Len(RequiredColumns) : ~InSeq(RequiredColumns[i], renamed)
                 THEN Raise("KeyError", "set_index", <<>>)
                 ELSE IF HasDuplicates(renamed)
                 THEN Raise("ValueError", "duplicate columns", <<>>)
                 ELSE Return(DatasetGetItem(TableToDataset(renamed, csv.grid, csv.columns),
                                                   var_name))

\* pd.read_csv(path) and the rest of the CSV branch
LoadCsv ==
    /\ pc = "load_csv"
    /\ log' = Append(log, Event("read_csv", "", frame.path))
    /\ IF ~Exists(fs, frame.path)
       THEN Unwind(Raise("FileNotFoundError", "read_csv", <<>>))
       ELSE IF fs[frame.path].type # "csv"
       THEN Unwind(Raise("ParserError", "read_csv", <<>>))
       ELSE LET res == LoadCsvResult(fs[frame.path], frame.var_name)
            IN  IF res.kind = "raise" THEN Unwind(res) ELSE ReturnTo(res.val)
    /\ UNCHANGED <<op, call, frame, plot, fs>>

(***************************************************************************)
(* os.makedirs and file writes.                                            *)
(***************************************************************************)
\* os.makedirs(name, exist_ok=True): [ok, fs, exc]
Makedirs(f, name) ==
    LET ap == Abspath(name)
    IN  IF name = <<>>
        THEN [ok |-> FALSE, fs |-> f, exc |-> "FileNotFoundError"]
        ELSE IF \E a \in Ancestors(ap) : Exists(f, a) /\ ~IsDir(f, a)
        THEN [ok |-> FALSE, fs |-> f, exc |-> "FileExistsError"]
        ELSE [ok |-> TRUE,
              fs |-> [a \in DOMAIN f \cup Ancestors(ap) |-> IF a \in DOMAIN f THEN f[a] ELSE Dir],
              exc |-> ""]

\* writing a file at path (created or overwritten): [ok, fs, exc]
WriteFile(f, path, content) ==
    LET ap == Abspath(path)
    IN  IF path = <<>> \/ ~IsDir(f, Dirname(ap))
        THEN [ok |-> FALSE, fs |-> f, exc |-> "FileNotFoundError"]
        ELSE IF IsDir(f, ap)
        THEN [ok |-> FALSE, fs |-> f, exc |-> "IsADirectoryError"]
        ELSE [ok |-> TRUE,
              fs |-> [a \in DOMAIN f \cup {ap} |-> IF a = ap THEN content ELSE f[a]],
              exc |-> ""]

(***************************************************************************)
(* save_outputs(da, out_dir, basename)                                     *)
(***************************************************************************)
Ext_nc == <<".", "n", "c">>
Ext_csv == <<".", "c", "s", "v">>

\* name = da.name or "value"
SaveName(da) == IF da.name = <<>> THEN VALUE ELSE da.name

\* da.to_dataset(name=name)
ToDataset(da, name) ==
    [data_vars |-> <<name>>, dims |-> da.dims, coords |-> da.coords,
     vals |-> (name :> Values(da))]

\* nc_path = os.path.join(out_dir, f"{basename}.nc")
NcPath(out_dir, basename) == Join(out_dir, basename \o Ext_nc)

\* csv_path = os.path.join(out_dir, f"{basename}.csv")
CsvPath(out_dir, basename) == Join(out_dir, basename \o Ext_csv)

\* da.to_dataframe() refuses an array without a name or without dimensions
ToDataframeFails(da) == da.name = <<>> \/ da.dims = <<>>

\* the header of da.to_dataframe().reset_index(): the dimensions, then the
\* scalar coordinates, then the value column
CsvHeader(da) ==
    LET scalars == {n \in DOMAIN da.coords : ~InSeq(n, da.dims)}
        ordered == SelectSeq(<<TIME, LAT, LON>>, LAMBDA n : n \in scalars)
    IN  da.dims \o ordered \o <<da.name>>

\* the columns of da.to_dataframe().reset_index(): a column of labels for
\* each coordinate, then the values
FrameColumns(da) ==
    LET header == CsvHeader(da)
    IN  [i \in 1..Len(header) |->
            IF i < Len(header)
            THEN [c \in Cells(da.coords) |-> c[header[i]]]
            ELSE Values(da)]

\* a slip: the two paths returned the other way round
SaveReturnValue_Swapped(nc_path, csv_path) == <<csv_path, nc_path>>

\* "return nc_path, csv_path"
SaveReturnValue(nc_path, csv_path) == <<nc_path, csv_path>>

SaveFrame(nc_path, csv_path) == [fn |-> "save", nc_path |-> nc_path, csv_path |-> csv_path]

\* os.makedirs(out_dir, exist_ok=True), then the two paths are computed
SaveMakedirs ==
    /\ pc = "save_makedirs"
    /\ log' = Append(log, Event("makedirs", "", call.out_dir))
    /\ \E denied \in BOOLEAN :
        LET made == Makedirs(fs, call.out_dir)
        IN  IF denied \/ ~made.ok
            THEN /\ Unwind(Raise(IF denied THEN "PermissionError" ELSE made.exc, "makedirs", <<>>))
                 /\ UNCHANGED <<fs, frame>>
            ELSE /\ fs' = made.fs
                 /\ frame' = SaveFrame(NcPath(call.out_dir, call.basename),
                                       CsvPath(call.out_dir, call.basename))
                 /\ pc' = "save_netcdf"
                 /\ UNCHANGED <<stack, ret>>
    /\ UNCHANGED <<op, call, plot>>

\* ds_out.to_netcdf(nc_path)
SaveNetcdf ==
    /\ pc = "save_netcdf"
    /\ log' = Append(log, Event("to_netcdf", "", frame.nc_path))
    /\ \E denied \in BOOLEAN :
        LET written == WriteFile(fs, frame.nc_path,
                                 NcFile(ToDataset(call.da, SaveName(call.da))))
        IN  IF denied \/ ~written.ok
            THEN /\ Unwind(Raise(IF denied THEN "PermissionError" ELSE written.exc,
                                 "to_netcdf", <<>>))
                 /\ fs' = fs
            ELSE /\ fs' = written.fs
                 /\ pc' = "save_csv"
                 /\ UNCHANGED <<stack, ret>>
    /\ UNCHANGED <<op, call, frame, plot>>

\* (da.to_dataframe().reset_index()).to_csv(csv_path, index=False)
SaveCsv ==
    /\ pc = "save_csv"
    /\ IF ToDataframeFails(call.da)
       THEN /\ Unwind(Raise("ValueError", "to_dataframe", <<>>))
            /\ UNCHANGED <<fs, log>>
       ELSE /\ log' = Append(log, Event("to_csv", "", frame.csv_path))
            /\ \E denied \in BOOLEAN :
                LET written == WriteFile(fs, frame.csv_path,
                                         CsvFile(CsvHeader(call.da), call.da.coords,
                                                 FrameColumns(call.da)))
                IN  IF denied \/ ~written.ok
                    THEN /\ Unwind(Raise(IF denied THEN "PermissionError" ELSE written.exc,
                                         "to_csv", <<>>))
                         /\ fs' = fs
                    ELSE /\ fs' = written.fs
                         /\ pc' = "save_return"
                         /\ UNCHANGED <<stack, ret>>
    /\ UNCHANGED <<op, call, frame, plot>>

\* the two prints and "return nc_path, csv_path"
SaveReturn ==
    /\ pc = "save_return"
    /\ ReturnTo(SaveReturnValue(frame.nc_path, frame.csv_path))
    /\ UNCHANGED <<op, call, frame, plot, fs, log>>

\* arrays handed to save_outputs: slices of the source, and one without a name
SaveArrays ==
    LET box == SliceDatasetResult(SourceDataset, LW, Box(1, 2 * NLat), Box(3, 2 * NLon),
                                  NoTime, TRUE).val
        point == SliceDatasetResult(SourceDataset, SW, Point(3), Point(4),
                                    TimeRange(TRUE, 1, TRUE, 2), TRUE).val
    IN  {box, point, [box EXCEPT !.name = <<>>]}

\* out_dir: a new directory, one with a trailing slash, nested below a new
\* one, the empty string, an existing file
SaveDirs == {<<"o">>, <<"o", "/">>, <<"n", "/", "o">>, <<>>, P_e_txt}

\* basename: plain, and absolute
SaveBasenames == {<<"r">>, <<"/", "r">>}

\* a call save_outputs(da, out_dir, basename)
StartSave ==
    /\ op = "idle"
    /\ \E da \in SaveArrays, out_dir \in SaveDirs, basename \in SaveBasenames :
        call' = [fn |-> "save_outputs", da |-> da, out_dir |-> out_dir, basename |-> basename]
    /\ op' = "save_outputs"
    /\ pc' = "save_makedirs"
    /\ UNCHANGED <<stack, frame, plot, fs, log, ret>>

(***************************************************************************)
(* plot_radiation_map and plot_two_maps                                    *)
(***************************************************************************)
\* the sum over the time steps of the values at one cell of the other
\* coordinates
RECURSIVE SumOver(_, _, _)
SumOver(vals, c, steps) ==
    IF steps = <<>> THEN 0
    ELSE vals[c @@ (TIME :> Head(steps))] + SumOver(vals, c, Tail(steps))

\* da.mean("time"): the time dimension and its coordinate are dropped; at
\* each remaining cell the mean over the time steps, kept as the pair
\* <<sum, number of steps>>
MeanOverTimeDim(da) ==
    LET coords == [n \in DOMAIN da.coords \ {TIME} |-> da.coords[n]]
    IN  [name |-> da.name,
         dims |-> Without(da.dims, TIME),
         coords |-> coords,
         vals |-> [c \in Cells(coords) |->
                     <<SumOver(da.vals, c, da.coords[TIME]), Len(da.coords[TIME])>>]]

\* "if mean_over_time and 'time' in da.dims: da = da.mean('time')"
Averages(mean_over_time, da) == mean_over_time /\ InSeq(TIME, da.dims)

MaybeMean(mean_over_time, da) ==
    IF Averages(mean_over_time, da) THEN MeanOverTimeDim(da) ELSE da

\* da.squeeze(): every dimension of length 1 is dropped
Squeeze(da) == [da EXCEPT !.dims = SelectSeq(da.dims, LAMBDA d : Len(da.coords[d]) # 1)]

\* ax.set_title(title) with cartopy, ax.set_title(title + " (no cartopy)") without
Title(text, has_cartopy) ==
    [text |-> text, suffix |-> IF has_cartopy THEN "" ELSE " (no cartopy)"]

\* the title text of plot_radiation_map
SingleTitle(mean_over_time, da) ==
    IF ~InSeq(TIME, da.dims) \/ mean_over_time
    THEN "Mean Surface Radiation"
    ELSE "First timestep"

\* the title text plot_two_maps gives each of its two maps
DuoTitle(mean_over_time, da) == "Mean Surface Radiation"

\* DataArray.plot with a colour bar draws a 2-D array; what it does with
\* another number of dimensions is left open (it may raise)
PlotMayRaise(da) == Len(da.dims) # 2

\* "if save_path:" is false of None and of the empty string; both are <<>>
NoPath == <<>>

\* the block "if save_path: os.makedirs(os.path.dirname(save_path),
\* exist_ok=True); plt.savefig(save_path, ...)": [ok, fs, log, exc, at]
SaveFigure(f, l, save_path) ==
    IF save_path = NoPath
    THEN [ok |-> TRUE, fs |-> f, log |-> l, exc |-> "", at |-> ""]
    ELSE LET made == Makedirs(f, Dirname(save_path))
             l1 == Append(l, Event("makedirs", "", Dirname(save_path)))
         IN  IF ~made.ok
             THEN [ok |-> FALSE, fs |-> f, log |-> l1, exc |-> made.exc, at |-> "makedirs"]
             ELSE LET written == WriteFile(made.fs, save_path, PngFile)
                      l2 == Append(l1, Event("savefig", "", save_path))
                  IN  [ok |-> written.ok, fs |-> written.fs, log |-> l2,
                       exc |-> written.exc, at |-> "savefig"]

\* plot_radiation_map: "da = _load_dataset(data_path, var_name)"
Plot1Load ==
    /\ pc = "plot1"
    /\ frame' = OpenFrame(plot.data_path, plot.var_name)
    /\ stack' = Append(stack, "plot1_render")
    /\ pc' = "load"
    /\ UNCHANGED <<op, call, plot, fs, log, ret>>

\* plot_radiation_map from the mean to plt.tight_layout()
Plot1Render ==
    /\ pc = "plot1_render"
    /\ LET loaded == ret.val
           da == Squeeze(MaybeMean(plot.mean_over_time, loaded))
           title == Title(SingleTitle(plot.mean_over_time, da), plot.has_cartopy)
       IN  /\ plot' = [plot EXCEPT !.averaged = <<Averages(plot.mean_over_time, loaded)>>,
                                    !.titles = <<title>>,
                                    !.drawn = <<da>>]
           /\ log' = Append(log, Event("plot", "", <<>>))
           /\ \E raises \in BOOLEAN :
                /\ raises => PlotMayRaise(da)
                /\ IF raises
                   THEN Unwind(Raise("PlotError", "plot", <<>>))
                   ELSE pc' = "plot1_save" /\ UNCHANGED <<stack, ret>>
    /\ UNCHANGED <<op, call, frame, fs>>

\* plot_radiation_map: the save block
Plot1Save ==
    /\ pc = "plot1_save"
    /\ LET saved == SaveFigure(fs, log, plot.save_path)
       IN  /\ fs' = saved.fs
           /\ log' = saved.log
           /\ IF saved.ok
              THEN pc' = "plot1_show" /\ UNCHANGED <<stack, ret>>
              ELSE Unwind(Raise(saved.exc, saved.at, <<>>))
    /\ UNCHANGED <<op, call, frame, plot>>

\* plot_radiation_map: plt.show()
Plot1Show ==
    /\ pc = "plot1_show"
    /\ log' = Append(log, Event("show", "", <<>>))
    /\ ReturnTo(<<>>)
    /\ UNCHANGED <<op, call, frame, plot, fs>>

\* plot_two_maps: "da_lw = _load_dataset(lw_path, lw_var)"
Plot2LoadLw ==
    /\ pc = "plot2"
    /\ frame' = OpenFrame(plot.lw_path, plot.lw_var)
    /\ stack' = Append(stack, "plot2_load_sw")
    /\ pc' = "load"
    /\ UNCHANGED <<op, call, plot, fs, log, ret>>

\* plot_two_maps: "da_sw = _load_dataset(sw_path, sw_var)"
Plot2LoadSw ==
    /\ pc = "plot2_load_sw"
    /\ plot' = [plot EXCEPT !.da_lw = <<ret.val>>]
    /\ frame' = OpenFrame(plot.sw_path, plot.sw_var)
    /\ stack' = Append(stack, "plot2_render")
    /\ pc' = "load"
    /\ UNCHANGED <<op, call, fs, log, ret>>

\* plot_two_maps from the means to plt.tight_layout()
Plot2Render ==
    /\ pc = "plot2_render"
    /\ LET lw_loaded == plot.da_lw[1]
           sw_loaded == ret.val
           da_lw == MaybeMean(plot.mean_over_time, lw_loaded)
           da_sw == MaybeMean(plot.mean_over_time, sw_loaded)
       IN  /\ plot' = [plot EXCEPT
                         !.averaged = <<Averages(plot.mean_over_time, lw_loaded),
                                        Averages(plot.mean_over_time, sw_loaded)>>,
                         !.titles = <<Title(DuoTitle(plot.mean_over_time, da_lw),
                                            plot.has_cartopy),
                                      Title(DuoTitle(plot.mean_over_time, da_sw),
                                            plot.has_cartopy)>>,
                         !.drawn = <<da_lw, da_sw>>]
           /\ log' = Append(log, Event("plot", "", <<>>))
           /\ \E raises \in BOOLEAN :
                /\ raises => (PlotMayRaise(da_lw) \/ PlotMayRaise(da_sw))
                /\ IF raises
                   THEN Unwind(Raise("PlotError", "plot", <<>>))
                   ELSE pc' = "plot2_save" /\ UNCHANGED <<stack, ret>>
    /\ UNCHANGED <<op, call, frame, fs>>

\* plot_two_maps: the save block
Plot2Save ==
    /\ pc = "plot2_save"
    /\ LET saved == SaveFigure(fs, log, plot.save_path)
       IN  /\ fs' = saved.fs
           /\ log' = saved.log
           /\ IF saved.ok
              THEN pc' = "plot2_show" /\ UNCHANGED <<stack, ret>>
              ELSE Unwind(Raise(saved.exc, saved.at, <<>>))
    /\ UNCHANGED <<op, call, frame, plot>>

\* plot_two_maps: plt.show()
Plot2Show ==
    /\ pc = "plot2_show"
    /\ log' = Append(log, Event("show", "", <<>>))
    /\ ReturnTo(<<>>)
    /\ UNCHANGED <<op, call, frame, plot, fs>>

\* the locals of a running plot_radiation_map
Plot1Frame(data_path, var_name, mean_over_time, save_path, has_cartopy) ==
    [fn |-> "plot_radiation_map", data_path |-> data_path, var_name |-> var_name,
     mean_over_time |-> mean_over_time, save_path |-> save_path,
     has_cartopy |-> has_cartopy, averaged |-> <<>>, titles |-> <<>>, drawn |-> <<>>]

\* the locals of a running plot_two_maps
Plot2Frame(lw_path, lw_var, sw_path, sw_var, mean_over_time, save_path, has_cartopy) ==
    [fn |-> "plot_two_maps", lw_path |-> lw_path, lw_var |-> lw_var,
     sw_path |-> sw_path, sw_var |-> sw_var,
     mean_over_time |-> mean_over_time, save_path |-> save_path,
     has_cartopy |-> has_cartopy, da_lw |-> <<>>,
     averaged |-> <<>>, titles |-> <<>>, drawn |-> <<>>]

P_o_p_png == <<"o", "/", "p", ".", "p", "n", "g">>
P_p_png == <<"p", ".", "p", "n", "g">>
P_up_q_png == <<".", ".", "/", "g", "/", "q", ".", "p", "n", "g">>

\* save_path: absent, below a new directory, a bare file name, below a new
\* directory next to the working directory
SavePaths == {NoPath, P_o_p_png, P_p_png, P_up_q_png}

PlotPaths == {P_a_nc, P_b_NC4, P_c_cdf, P_t_csv, P_e_txt}
PlotVars == {LW, XX}

\* a call plot_radiation_map(data_path, var_name, mean_over_time, save_path)
StartPlot1 ==
    /\ op = "idle"
    /\ \E data_path \in PlotPaths, var_name \in PlotVars, mean_over_time \in BOOLEAN,
          save_path \in SavePaths, has_cartopy \in BOOLEAN :
        /\ call' = [fn |-> "plot_radiation_map", data_path |-> data_path,
                    var_name |-> var_name, mean_over_time |-> mean_over_time,
                    save_path |-> save_path]
        /\ plot' = Plot1Frame(data_path, var_name, mean_over_time, save_path, has_cartopy)
    /\ op' = "plot_radiation_map"
    /\ pc' = "plot1"
    /\ UNCHANGED <<stack, frame, fs, log, ret>>

\* a call plot_two_maps(lw_path, lw_var, sw_path, sw_var, mean_over_time, save_path)
StartPlot2 ==
    /\ op = "idle"
    /\ \E lw_path \in {P_a_nc, P_b_NC4}, sw \in {<<P_a_nc, SW>>, <<P_c_cdf, LW>>, <<P_m_nc, SW>>},
          mean_over_time \in BOOLEAN, save_path \in SavePaths, has_cartopy \in BOOLEAN :
        /\ call' = [fn |-> "plot_two_maps", lw_path |-> lw_path, lw_var |-> LW,
                    sw_path |-> sw[1], sw_var |-> sw[2],
                    mean_over_time |-> mean_over_time, save_path |-> save_path]
        /\ plot' = Plot2Frame(lw_path, LW, sw[1], sw[2], mean_over_time, save_path,
                              has_cartopy)
    /\ op' = "plot_two_maps"
    /\ pc' = "plot2"
    /\ UNCHANGED <<stack, frame, fs, log, ret>>

(***************************************************************************)
(* _print_available_vars and the command line of visualize_map.py          *)
(***************************************************************************)
Printed(what, names) == [ev |-> "print", eng |-> what, path |-> <<>>, names |-> names]

\* _print_available_vars(path) up to the open of a NetCDF file, or to its
\* end for the other kinds of file
PrintVars ==
    /\ pc = "list"
    /\ IF LoadBranch(frame.path) = "nc"
       THEN /\ frame' = OpenFrame(Abspath(frame.path), <<>>)
            /\ stack' = Append(stack, "list_nc")
            /\ pc' = "open_try"
            /\ UNCHANGED <<log, ret>>
       ELSE IF LoadBranch(frame.path) = "csv"
       THEN /\ frame' = [frame EXCEPT !.path = Abspath(@)]
            /\ IF ~Exists(fs, Abspath(frame.path))
               THEN /\ log' = Append(log, Event("read_csv", "", Abspath(frame.path)))
                    /\ Unwind(Raise("FileNotFoundError", "read_csv", <<>>))
               ELSE IF fs[Abspath(frame.path)].type # "csv"
               THEN /\ log' = Append(log, Event("read_csv", "", Abspath(frame.path)))
                    /\ Unwind(Raise("ParserError", "read_csv", <<>>))
               ELSE /\ log' = Append(Append(log, Event("read_csv", "", Abspath(frame.path))),
                                     Printed("CSV value columns",
                                             ValueColumns(fs[Abspath(frame.path)].header)))
                    /\ ReturnTo(<<>>)
       ELSE /\ log' = Append(log, Printed("Unknown file type", <<>>))
            /\ frame' = frame
            /\ ReturnTo(<<>>)
    /\ UNCHANGED <<op, call, plot, fs>>

\* _print_available_vars: print("Available variables:", ", ".join(ds.data_vars))
PrintVarsNc ==
    /\ pc = "list_nc"
    /\ log' = Append(log, Printed("Available variables", DataVars(ret.val)))
    /\ ReturnTo(<<>>)
    /\ UNCHANGED <<op, call, frame, plot, fs>>

\* a slip: --both tested before --list
CliBranch_BothFirst(args) ==
    IF args.both THEN "plot_two_maps"
    ELSE IF args.list THEN "_print_available_vars"
    ELSE "plot_radiation_map"

\* the branch of "if args.list: ... elif args.both: ... else: ..."
CliBranch(args) ==
    IF args.list THEN "_print_available_vars"
    ELSE IF args.both THEN "plot_two_maps"
    ELSE "plot_radiation_map"

\* the command line after parse_args(): the call of the chosen function
CliDispatch ==
    /\ pc = "cli"
    /\ log' = Append(log, Event("call", CliBranch(call), <<>>))
    /\ IF CliBranch(call) = "_print_available_vars"
       THEN /\ frame' = [fn |-> "list", path |-> call.path]
            /\ pc' = "list"
            /\ UNCHANGED <<plot, stack>>
       ELSE IF CliBranch(call) = "plot_two_maps"
       THEN /\ plot' = Plot2Frame(call.lw, call.lw_var, call.sw, call.sw_var,
                                  ~call.no_mean, call.save_both, call.has_cartopy)
            /\ stack' = Append(stack, "cli_duo_saved")
            /\ pc' = "plot2"
            /\ frame' = frame
       ELSE /\ plot' = Plot1Frame(call.path, call.var, ~call.no_mean, call.save,
                                  call.has_cartopy)
            /\ stack' = Append(stack, "cli_saved")
            /\ pc' = "plot1"
            /\ frame' = frame
    /\ UNCHANGED <<op, call, fs, ret>>

\* print(f" Duo visualization saved at: {args.save_both}")
CliDuoSaved ==
    /\ pc = "cli_duo_saved"
    /\ log' = Append(log, Printed("Duo visualization saved at", <<call.save_both>>))
    /\ ReturnTo(<<>>)
    /\ UNCHANGED <<op, call, frame, plot, fs>>

\* print(f"Visualization saved at: {args.save}")
CliSaved ==
    /\ pc = "cli_saved"
    /\ log' = Append(log, Printed("Visualization saved at", <<call.save>>))
    /\ ReturnTo(<<>>)
    /\ UNCHANGED <<op, call, frame, plot, fs>>

\* a run of "python visualize_map.py" with its flags
StartCli ==
    /\ op = "idle"
    /\ \E list \in BOOLEAN, both \in BOOLEAN, no_mean \in BOOLEAN,
          path \in {P_a_nc, P_t_csv, P_e_txt, P_m_nc}, save \in {P_o_p_png, P_p_png},
          has_cartopy \in BOOLEAN :
        call' = [fn |-> "cli", list |-> list, both |-> both, no_mean |-> no_mean,
                 path |-> path, var |-> LW, save |-> save,
                 lw |-> P_a_nc, lw_var |-> LW, sw |-> P_b_NC4, sw_var |-> SW,
                 save_both |-> P_up_q_png, has_cartopy |-> has_cartopy]
    /\ op' = "cli"
    /\ pc' = "cli"
    /\ UNCHANGED <<stack, frame, plot, fs, log, ret>>

(***************************************************************************)
(* Entry points.                                                           *)
(***************************************************************************)
\* slice_dataset(SourceDataset, var, lat=, lon=, time=, nearest=)
SliceDataset ==
    /\ op = "idle"
    /\ \E var \in SliceVars, lat \in AxisSelectors(NLat), lon \in AxisSelectors(NLon),
          time \in TimeSelectors, nearest \in BOOLEAN :
        /\ call' = [fn |-> "slice_dataset", ds |-> SourceDataset, var |-> var,
                    lat |-> lat, lon |-> lon, time |-> time, nearest |-> nearest]
        /\ ret' = SliceDatasetResult(SourceDataset, var, lat, lon, time, nearest)
    /\ op' = "slice_dataset"
    /\ pc' = "done"
    /\ UNCHANGED <<stack, frame, plot, fs, log>>

\* a call _open_netcdf_any(path)
StartOpen ==
    /\ op = "idle"
    /\ \E path \in LoadPaths :
        /\ call' = [fn |-> "_open_netcdf_any", path |-> path]
        /\ frame' = OpenFrame(Abspath(path), <<>>)
    /\ op' = "_open_netcdf_any"
    /\ pc' = "open_try"
    /\ UNCHANGED <<stack, plot, fs, log, ret>>

\* a call _load_dataset(path, var_name)
StartLoad ==
    /\ op = "idle"
    /\ \E path \in LoadPaths, var_name \in LoadVars :
        /\ call' = [fn |-> "_load_dataset", path |-> path, var_name |-> var_name]
        /\ frame' = OpenFrame(path, var_name)
    /\ op' = "_load_dataset"
    /\ pc' = "load"
    /\ UNCHANGED <<stack, plot, fs, log, ret>>

(***************************************************************************)
(* slice_and_save(ds, var, lat, lon, time, out_dir, basename, load), and   *)
(* _load_dataset on the NetCDF path it returns                             *)
(***************************************************************************)
\* lat / lon selectors: a box, an empty box, a point between two labels
RoundTripSelectors(n) == {Box(3, 2 * n), Box(3, 2), Point(3)}

\* time selectors: none, a closed range, a range open at the start
RoundTripTimes == {NoTime, TimeRange(TRUE, 2, TRUE, NTime), TimeRange(FALSE, 0, TRUE, 2)}

\* variable keys of the source dataset
RoundTripVars == SeqToSet(DataVars(SourceDataset))

\* out_dir: a new directory, and one nested below a new one
RoundTripDirs == {<<"o">>, <<"n", "/", "o">>}

\* da.load(): the same array, its values in memory
LoadValues(da) == da

\* "da = slice_dataset(ds, var=var, lat=lat, lon=lon, time=time)" with the
\* default nearest=True, "if load: da = da.load()", and the call of
\* save_outputs(da, out_dir=out_dir, basename=basename)
StartSliceAndSave ==
    /\ op = "idle"
    /\ op' = "slice_and_save"
    /\ \E var \in RoundTripVars, lat \in RoundTripSelectors(NLat),
          lon \in RoundTripSelectors(NLon), time \in RoundTripTimes,
          out_dir \in RoundTripDirs, load \in BOOLEAN :
        LET sliced == SliceDatasetResult(SourceDataset, var, lat, lon, time, TRUE)
            input == [fn |-> "slice_and_save", ds |-> SourceDataset, var |-> var,
                      lat |-> lat, lon |-> lon, time |-> time, out_dir |-> out_dir,
                      basename |-> <<"r">>, load |-> load]
        IN  IF sliced.kind = "raise"
            THEN /\ call' = input @@ [da |-> NoCall]
                 /\ Unwind(sliced)
            ELSE /\ call' = input @@
                        [da |-> IF load THEN LoadValues(sliced.val) ELSE sliced.val]
                 /\ pc' = "save_makedirs"
                 /\ stack' = <<"reload", "slice_and_save_return">>
                 /\ ret' = ret
    /\ UNCHANGED <<frame, plot, fs, log>>

\* "paths = save_outputs(...)" and "return da, paths"
SliceAndSaveReturn ==
    /\ pc = "slice_and_save_return"
    /\ ReturnTo(<<call.da, ret.val>>)
    /\ UNCHANGED <<op, call, frame, plot, fs, log>>

\* _load_dataset(paths[0], var) on what slice_and_save returned
Reload ==
    /\ pc = "reload"
    /\ frame' = OpenFrame(ret.val[2][1], call.var)
    /\ pc' = "load"
    /\ UNCHANGED <<op, stack, call, plot, fs, log, ret>>

Init ==
    /\ op = "idle"
    /\ pc = "idle"
    /\ stack = <<>>
    /\ call = NoCall
    /\ frame = NoFrame
    /\ plot = NoPlot
    /\ fs = InitFS
    /\ log = <<>>
    /\ ret = NoRet

Next ==
    \/ SliceDataset
    \/ StartOpen
    \/ StartLoad
    \/ OpenTry
    \/ LoadDispatch
    \/ LoadNc
    \/ LoadCsv
    \/ StartSave
    \/ SaveMakedirs
    \/ SaveNetcdf
    \/ SaveCsv
    \/ SaveReturn
    \/ StartPlot1
    \/ Plot1Load
    \/ Plot1Render
    \/ Plot1Save
    \/ Plot1Show
    \/ StartPlot2
    \/ Plot2LoadLw
    \/ Plot2LoadSw
    \/ Plot2Render
    \/ Plot2Save
    \/ Plot2Show
    \/ StartCli
    \/ CliDispatch
    \/ PrintVars
    \/ PrintVarsNc
    \/ CliDuoSaved
    \/ CliSaved
    \/ StartSliceAndSave
    \/ SliceAndSaveReturn
    \/ Reload

Spec == Init /\ [][Next]_vars

(***************************************************************************)
(* Properties.                                                             *)
(***************************************************************************)
Done == pc = "done"

LogHas(ev) == \E i \in 1..Len(log) : log[i].ev = ev

\* the file a finished _load_dataset call was given
LoadedFile == fs[Abspath(call.path)]

\* ---------------------------------------------------------------------
\* C1: for every requested name that is not a data variable of the dataset
\* (slice_dataset) or of the opened NetCDF file (_load_dataset), the call
\* raises the not-found KeyError carrying exactly the data-variable names,
\* and returns no array.
C1_MissingNameRaisesNotFound ==
    /\ (op = "slice_dataset" /\ Done /\ ~InSeq(call.var, call.ds.data_vars))
         => ret = Raise("KeyError", "variable not found", call.ds.data_vars)
    /\ (op = "_load_dataset" /\ Done /\ LoadBranch(call.path) = "nc"
          /\ ~(ret.kind = "raise" /\ ret.exc = "RuntimeError")
          /\ ~InSeq(call.var_name, LoadedFile.ds.data_vars))
         => ret = Raise("KeyError", "variable not in dataset", LoadedFile.ds.data_vars)

\* ---------------------------------------------------------------------
\* C2: a mixed selection (one of lat/lon a box, the other a point, nearest
\* matching on) of a data variable returns an array whose box axis holds the
\* labels within min..max, whose point axis holds one label, and whose
\* dimensions are the input dimensions minus the point axis.
C2_MixedSelectionSupported ==
    (op = "slice_dataset" /\ Done /\ InSeq(call.var, call.ds.data_vars)
       /\ call.nearest /\ call.lat.box # call.lon.box)
    => LET boxAxis == IF call.lat.box THEN LAT ELSE LON
           pointAxis == IF call.lat.box THEN LON ELSE LAT
           box == IF call.lat.box THEN call.lat ELSE call.lon
       IN  /\ ret.kind = "return"
           /\ ret.val.dims = Without(call.ds.dims, pointAxis)
           /\ Len(ret.val.coords[pointAxis]) = 1
           /\ ret.val.coords[boxAxis]
                = SelectSeq(call.ds.coords[boxAxis], LAMBDA c : box.lo <= c /\ c <= box.hi)

\* ---------------------------------------------------------------------
\* C3: _open_netcdf_any tries netcdf4, h5netcdf, scipy in this order on the
\* given path; every engine tried before the last one tried has failed; it
\* returns the dataset of the first engine that succeeds and tries no engine
\* after it; it raises only after all three have failed, and the error then
\* lists the three engines in the order tried.
C3_EnginesInOrderFirstSuccessWins ==
    op = "_open_netcdf_any" =>
        LET order == <<"netcdf4", "h5netcdf", "scipy">>
        IN  /\ Len(log) <= 3
            /\ \A i \in 1..Len(log) :
                   log[i] = Event("open_dataset", order[i], Abspath(call.path))
            /\ ~Done => frame.errors = SubSeq(order, 1, Len(log))
            /\ (Done /\ ret.kind = "return")
                 => /\ frame.errors = SubSeq(order, 1, Len(log) - 1)
                    /\ ret.val = LoadedFile.ds
            /\ (Done /\ ret.kind = "raise")
                 => /\ Len(log) = 3
                    /\ ret = Raise("RuntimeError", "open", order)

C3_Witness ==
    /\ op = "_open_netcdf_any" /\ Done /\ ret.kind = "return"
    /\ Len(log) = 2 /\ log[2].eng = "h5netcdf"

\* the lower-cased extension of a path: what follows the last dot of its last
\* component, unless only dots precede that dot
C4_Extension(path) ==
    LET dots == {i \in 1..Len(path) : path[i] = "."}
        seps == {i \in 1..Len(path) : path[i] = "/"}
        lastSep == IF seps = {} THEN 0 ELSE CHOOSE i \in seps : \A j \in seps : j <= i
        lastDot == IF dots = {} THEN 0 ELSE CHOOSE i \in dots : \A j \in dots : j <= i
        stem == {i \in (lastSep + 1)..(lastDot - 1) : path[i] # "."}
    IN  IF lastDot > lastSep /\ stem # {}
        THEN [i \in 1..(Len(path) - lastDot + 1) |-> LowerChar(path[lastDot + i - 1])]
        ELSE <<>>

\* ---------------------------------------------------------------------
\* C4: _load_dataset dispatches on the lower-cased extension only: with
\* .nc/.nc4/.cdf it opens the file with the engines and never reads a
\* table; with .csv it reads the table and tries no engine; with any other
\* extension it raises the unsupported-format ValueError having opened and
\* read nothing.
C4_DispatchOnExtensionOnly ==
    (op = "_load_dataset" /\ pc # "load") =>
        LET ext == C4_Extension(call.path)
        IN  /\ ext \in {<<".","n","c">>, <<".","n","c","4">>, <<".","c","d","f">>}
                 => /\ ~LogHas("read_csv")
                    /\ ~(ret.kind = "raise" /\ ret.exc = "ValueError")
                    /\ (Done => LogHas("open_dataset"))
            /\ ext = <<".","c","s","v">>
                 => /\ ~LogHas("open_dataset")
                    /\ ~(ret.kind = "raise" /\ ret.at = "unsupported file type")
                    /\ (Done => LogHas("read_csv"))
            /\ ext \notin {<<".","n","c">>, <<".","n","c","4">>, <<".","c","d","f">>,
                           <<".","c","s","v">>}
                 => /\ Done
                    /\ ret = Raise("ValueError", "unsupported file type", <<ext>>)
                    /\ log = <<>>

C4_Witness ==
    /\ op = "_load_dataset" /\ Done /\ call.path = P_dot_nc
    /\ ret.kind = "raise" /\ ret.exc = "ValueError" /\ log = <<>>

\* ---------------------------------------------------------------------
\* C5: a slice_dataset call whose time selector lacks its start or its end
\* is rejected: it does not return.
C5_OpenEndedTimeRejected ==
    (op = "slice_dataset" /\ Done /\ call.time.given
       /\ (~call.time.hasStart \/ ~call.time.hasEnd))
    => ret.kind = "raise"

\* a header holds a name in some letter case; a finished load of a CSV file
C6_HeaderHasIgnoringCase(header, name) ==
    \E i \in 1..Len(header) :
        Len(header[i]) = Len(name)
        /\ \A k \in 1..Len(name) : LowerChar(header[i][k]) = LowerChar(name[k])

C6_CsvLoadFinished ==
    /\ op = "_load_dataset" /\ Done /\ LoadBranch(call.path) = "csv"
    /\ Exists(fs, Abspath(call.path)) /\ LoadedFile.type = "csv"

\* ---------------------------------------------------------------------
\* C6 as stated: a CSV load returns an array only if the header holds
\* columns named exactly time, lat and lon, and the requested variable in
\* any letter case.
C6_CoordinateColumnsMatchedExactly ==
    (C6_CsvLoadFinished /\ ret.kind = "return")
    => /\ \A req \in {TIME, LAT, LON} : InSeq(req, LoadedFile.header)
       /\ C6_HeaderHasIgnoringCase(LoadedFile.header, call.var_name)

\* C6 as amended: all four columns are matched without regard to letter
\* case.  The load raises the missing-column KeyError exactly when the header
\* lacks, in every letter case, one of time, lat, lon and the requested
\* variable; only a header holding all four yields an array.
C6_AllColumnsMatchedIgnoringCase ==
    C6_CsvLoadFinished =>
        LET complete == \A name \in {TIME, LAT, LON, call.var_name} :
                            C6_HeaderHasIgnoringCase(LoadedFile.header, name)
            missingColumnError ==
                /\ ret.kind = "raise" /\ ret.exc = "KeyError"
                /\ ret.at \in {"column not found", "missing required column"}
        IN  /\ ret.kind = "return" => complete
            /\ missingColumnError <=> ~complete

C6_Witness ==
    /\ C6_CsvLoadFinished /\ call.path = P_u_CSV /\ call.var_name = LW
    /\ ret.kind = "return" /\ ret.val.name = LW

\* save_outputs has passed its to_netcdf step
C7_NcStepDone ==
    \/ pc \in {"save_csv", "save_return"}
    \/ Done /\ (ret.kind = "return" \/ ret.at \in {"to_csv", "to_dataframe"})

\* ---------------------------------------------------------------------
\* C7: save_outputs calls makedirs(out_dir), to_netcdf(<out_dir>/<basename>.nc)
\* and to_csv(<out_dir>/<basename>.csv) in this order; a failing step raises,
\* is the last step made, and leaves in place what the earlier steps made
\* (nothing of the file system is removed); the call returns only once both
\* files are written, and returns exactly the two paths handed to the writes.
C7_StepsInOrderPartialOutputsKept ==
    op = "save_outputs" =>
        LET joined(ext) ==
                IF call.basename[1] = "/" THEN call.basename \o ext
                ELSE IF call.out_dir = <<>> \/ call.out_dir[Len(call.out_dir)] = "/"
                THEN call.out_dir \o call.basename \o ext
                ELSE call.out_dir \o <<"/">> \o call.basename \o ext
            steps == <<Event("makedirs", "", call.out_dir),
                       Event("to_netcdf", "", joined(<<".", "n", "c">>)),
                       Event("to_csv", "", joined(<<".", "c", "s", "v">>))>>
        IN  /\ Len(log) <= 3
            /\ log = SubSeq(steps, 1, Len(log))
            /\ \A p \in DOMAIN InitFS : Exists(fs, p) /\ fs[p] = InitFS[p]
            /\ Len(log) >= 2 => IsDir(fs, Abspath(call.out_dir))
            /\ C7_NcStepDone
                 => /\ Len(log) >= 2
                    /\ Exists(fs, Abspath(log[2].path))
                    /\ fs[Abspath(log[2].path)].type = "nc"
            /\ (Done /\ ret.kind = "raise")
                 => \/ ret.at = log[Len(log)].ev
                    \/ ret.at = "to_dataframe" /\ Len(log) = 2
            /\ (Done /\ ret.kind = "return")
                 => /\ Len(log) = 3
                    /\ ret.val = <<log[2].path, log[3].path>>
                    /\ Exists(fs, Abspath(log[3].path))
                    /\ fs[Abspath(log[3].path)].type = "csv"

C7_Witness ==
    /\ op = "save_outputs" /\ Done /\ ret.kind = "raise" /\ ret.at = "to_csv"
    /\ Len(log) = 3 /\ IsDir(fs, Abspath(call.out_dir))
    /\ fs[Abspath(log[2].path)].type = "nc"
    /\ ~Exists(fs, Abspath(log[3].path))

\* ---------------------------------------------------------------------
\* C8: every title a plot function sets says "Mean Surface Radiation" if and
\* only if the array under it was averaged over its time dimension.
C8_TitleSaysMeanIffAveraged ==
    (plot.fn # "none" /\ plot.titles # <<>>)
    => \A i \in 1..Len(plot.titles) :
           (plot.titles[i].text = "Mean Surface Radiation") <=> plot.averaged[i]

\* a plot function has finished after drawing its figure
C9_Drawn ==
    /\ plot.fn # "none" /\ Done /\ plot.titles # <<>>
    /\ ~(ret.kind = "raise" /\ ret.at = "plot")

\* ---------------------------------------------------------------------
\* C9: once a plot function has drawn its figure, a non-empty save_path has
\* its image written and the display is attempted; without a save_path the
\* file system is left as it was and the display is attempted.
C9_SavePathWrittenThenShown ==
    C9_Drawn =>
        /\ LogHas("show")
        /\ IF plot.save_path = NoPath
           THEN fs = InitFS
           ELSE /\ Exists(fs, Abspath(plot.save_path))
                /\ fs[Abspath(plot.save_path)].type = "png"
                /\ \E i \in 1..Len(log), j \in 1..Len(log) :
                       i < j /\ log[i] = Event("savefig", "", plot.save_path)
                             /\ log[j].ev = "show"

\* the calls the command line made
C10_Calls == SelectSeq(log, LAMBDA e : e.ev = "call")

\* ---------------------------------------------------------------------
\* C10: a run of the command line calls exactly one of
\* _print_available_vars, plot_two_maps and plot_radiation_map: the first
\* whenever --list is given, whatever the other flags; otherwise the second
\* if --both is given; otherwise the third.  A --list run draws nothing,
\* saves nothing, shows nothing and leaves the file system as it was, and
\* when it ends without an error the last thing it did was print the names.
C10_ListExcludesPlotting ==
    (op = "cli" /\ pc # "cli") =>
        /\ Len(C10_Calls) = 1
        /\ C10_Calls[1].eng = (IF call.list THEN "_print_available_vars"
                               ELSE IF call.both THEN "plot_two_maps"
                               ELSE "plot_radiation_map")
        /\ call.list =>
              /\ plot = NoPlot
              /\ fs = InitFS
              /\ \A i \in 1..Len(log) :
                     log[i].ev \notin {"plot", "makedirs", "savefig", "show"}
              /\ (Done /\ ret.kind = "return") => log[Len(log)].ev = "print"
        /\ ~call.list => plot.fn = C10_Calls[1].eng

C10_Witness ==
    /\ op = "cli" /\ Done /\ call.list /\ call.both /\ ret.kind = "return"
    /\ log[Len(log)] = Printed("Available variables", <<LW, SW>>)


\* da.shape: the length of each dimension, in order
C11_Shape(da) == [i \in 1..Len(da.dims) |-> Len(da.coords[da.dims[i]])]

\* the run stopped on a refused write or on a file no engine could open
C11_EnvironmentFailed ==
    ret.kind = "raise" /\ ret.exc \in {"PermissionError", "RuntimeError"}

\* ---------------------------------------------------------------------
\* C11: round trip.  For every data variable of the dataset and every
\* lat / lon / time selector, slicing, saving and loading the returned
\* .nc path under the same variable name, unless a write is refused or the
\* file cannot be opened, returns an array with the name, dimensions,
\* shape, coordinates and values of the sliced array.
C11_RoundTripReturnsSlicedArray ==
    (op = "slice_and_save" /\ Done /\ ~C11_EnvironmentFailed) =>
        /\ ret.kind = "return"
        /\ ret.val.name = call.da.name
        /\ ret.val.dims = call.da.dims
        /\ C11_Shape(ret.val) = C11_Shape(call.da)
        /\ ret.val.coords = call.da.coords
        /\ Values(ret.val) = Values(call.da)

=============================================================================
